---- MODULE Spec2Model ----
(***************************************************************************)
(* Model of the collector: main.py (cycle orchestration, snapshot file,    *)
(* scheduler thread, HTTP reader) and jun_collect.py (the process-wide     *)
(* payload cache "responces", the per-device session, the three parsers).  *)
(*                                                                         *)
(* Text is a sequence of tokens.  The token " " is whitespace, "/" is the  *)
(* mask delimiter, "Push" stands for that keyword, the other tokens are    *)
(* visible characters that are part of no keyword.                         *)
(***************************************************************************)
EXTENDS Integers, Sequences, FiniteSets, TLC

----------------------------------------------------------------------------
(* Python values *)

\* dict(): the empty mapping
EmptyDict == [k \in {} |-> k]

\* d[key] = value
DictPut(d, key, value) == (key :> value) @@ d

\* del d[key]
DictDel(d, key) == [k \in (DOMAIN d) \ {key} |-> d[k]]

\* outcome of a call: a returned value or a raised exception
Returned(v) == [ok |-> TRUE, val |-> v]
Raised == [ok |-> FALSE, val |-> EmptyDict]

----------------------------------------------------------------------------
(* str methods *)

Whitespace == {" "}

RECURSIVE lstrip(_)
lstrip(s) == IF s # <<>> /\ Head(s) \in Whitespace THEN lstrip(Tail(s)) ELSE s

RECURSIVE rstrip(_)
rstrip(s) == IF s # <<>> /\ s[Len(s)] \in Whitespace THEN rstrip(SubSeq(s, 1, Len(s) - 1)) ELSE s

\* str.strip()
strip(s) == rstrip(lstrip(s))

\* str.split("/")[0]: the text before the first "/"
RECURSIVE split_slash_0(_)
split_slash_0(s) == IF s = <<>> \/ Head(s) = "/" THEN <<>> ELSE <<Head(s)>> \o split_slash_0(Tail(s))

\* str.startswith("Push")
startswith_Push(s) == s # <<>> /\ Head(s) = "Push"

\* str.replace("Push", ""): every occurrence is removed
RECURSIVE replace_Push(_)
replace_Push(s) == IF s = <<>> THEN <<>> ELSE IF Head(s) = "Push" THEN replace_Push(Tail(s)) ELSE <<Head(s)>> \o replace_Push(Tail(s))

\* str.split(): the whitespace-delimited words, each a text
RECURSIVE split_ws(_)
split_ws(s) ==
    LET t == lstrip(s)
        RECURSIVE wordlen(_)
        wordlen(u) == IF u = <<>> \/ Head(u) \in Whitespace THEN 0 ELSE 1 + wordlen(Tail(u))
    IN IF t = <<>> THEN <<>>
       ELSE <<SubSeq(t, 1, wordlen(t))>> \o split_ws(SubSeq(t, wordlen(t) + 1, Len(t)))

----------------------------------------------------------------------------
(* XML payloads.  A child element is absent, present without text, or      *)
(* present with text.  A payload is None (no payload cached), a document   *)
(* lxml cannot parse, or a parsed tree.                                    *)

Absent == [e |-> "absent", s |-> <<>>]
NoText == [e |-> "notext", s |-> <<>>]
Text(s) == [e |-> "text", s |-> s]

None == [fmt |-> "none", tree |-> <<>>]
Malformed == [fmt |-> "malformed", tree |-> <<>>]
Xml(tree) == [fmt |-> "xml", tree |-> tree]

\* elem.text.strip(): AttributeError when elem.text is None (an element without text)
text_strip(elem) == IF elem.e = "text" THEN Returned(strip(elem.s)) ELSE Raised

\* parent.findtext(tag, default=""): the text, "" when the element is absent or has no text
findtext(elem) == IF elem.e = "text" THEN elem.s ELSE <<>>

----------------------------------------------------------------------------
(* jun_collect.py: the three parsers.  Each returns Returned(dict) or      *)
(* Raised (the exception reaches the caller).                              *)

\* the loop over physical.findall("logical-interface")
RECURSIVE logical_loop(_, _, _)
logical_loop(logicals, speed, acc) ==
    IF logicals = <<>> \/ ~acc.ok THEN acc
    ELSE LET logical == Head(logicals)
             description == IF logical.description.e = "absent" THEN Returned(<<>>)
                            ELSE text_strip(logical.description)
         IN IF ~description.ok THEN Raised
            ELSE IF logical.name.e # "absent" /\ logical.snmp_index.e # "absent"
            THEN LET name == text_strip(logical.name)
                     snmp_index == text_strip(logical.snmp_index)
                 IN IF ~name.ok \/ ~snmp_index.ok THEN Raised
                    ELSE logical_loop(Tail(logicals), speed,
                             Returned(DictPut(acc.val, snmp_index.val,
                                 [name |-> name.val, speed |-> speed, description |-> description.val])))
            ELSE logical_loop(Tail(logicals), speed, acc)

\* the loop over tree.findall(".//physical-interface")
RECURSIVE physical_loop(_, _)
physical_loop(physicals, acc) ==
    IF physicals = <<>> \/ ~acc.ok THEN acc
    ELSE LET physical == Head(physicals)
             speed == IF physical.speed.e = "absent" THEN Returned(<<>>) ELSE text_strip(physical.speed)
         IN IF ~speed.ok THEN Raised
            ELSE physical_loop(Tail(physicals), logical_loop(physical.logical, speed.val, acc))

parsing_interfaces(xml_content) ==
    IF xml_content.fmt = "none" THEN Returned(EmptyDict)
    ELSE IF xml_content.fmt = "malformed" THEN Raised
    ELSE physical_loop(xml_content.tree, Returned(EmptyDict))

\* the loop over rt.findall(".//nh") of parsing_inet3
RECURSIVE inet3_nh_loop(_, _)
inet3_nh_loop(nhs, vias) ==
    IF nhs = <<>> THEN vias
    ELSE LET nh == Head(nhs)
             via == strip(findtext(nh.via))
             label0 == strip(findtext(nh.mpls_label))
             label == IF startswith_Push(label0) THEN strip(replace_Push(label0)) ELSE label0
         IN IF via = <<>> THEN inet3_nh_loop(Tail(nhs), vias)
            ELSE inet3_nh_loop(Tail(nhs), DictPut(vias, via, label))

\* the loop over tree.findall(".//rt") of parsing_inet3
RECURSIVE inet3_rt_loop(_, _)
inet3_rt_loop(rts, nexthops) ==
    IF rts = <<>> THEN nexthops
    ELSE LET rt == Head(rts)
             destination == split_slash_0(findtext(rt.rt_destination))
         IN IF destination = <<>> THEN inet3_rt_loop(Tail(rts), nexthops)
            ELSE inet3_rt_loop(Tail(rts), DictPut(nexthops, destination, inet3_nh_loop(rt.nh, EmptyDict)))

parsing_inet3(xml_content) ==
    IF xml_content.fmt = "none" THEN Returned(EmptyDict)
    ELSE IF xml_content.fmt = "malformed" THEN Raised
    ELSE Returned(inet3_rt_loop(xml_content.tree, EmptyDict))

\* the loop over rt.findall(".//nh") of parsing_mpls0
RECURSIVE mpls0_nh_loop(_, _)
mpls0_nh_loop(nhs, vias) ==
    IF nhs = <<>> THEN vias
    ELSE LET nh == Head(nhs)
             via == strip(findtext(nh.via))
             label == strip(findtext(nh.mpls_label))
             parts == split_ws(label)
         IN IF via = <<>> \/ label = <<>> THEN mpls0_nh_loop(Tail(nhs), vias)
            ELSE mpls0_nh_loop(Tail(nhs), DictPut(vias, via,
                     [action |-> parts[1], label |-> IF Len(parts) > 1 THEN parts[2] ELSE <<>>]))

\* a loop without the final "del labels[destination]"
RECURSIVE mpls0_rt_loop_KeepsEmpty(_, _)
mpls0_rt_loop_KeepsEmpty(rts, labels) ==
    IF rts = <<>> THEN labels
    ELSE LET rt == Head(rts)
             destination == findtext(rt.rt_destination)
         IN IF destination = <<>> THEN mpls0_rt_loop_KeepsEmpty(Tail(rts), labels)
            ELSE mpls0_rt_loop_KeepsEmpty(Tail(rts), DictPut(labels, destination, mpls0_nh_loop(rt.nh, EmptyDict)))

\* the loop over tree.findall(".//rt") of parsing_mpls0
RECURSIVE mpls0_rt_loop(_, _)
mpls0_rt_loop(rts, labels) ==
    IF rts = <<>> THEN labels
    ELSE LET rt == Head(rts)
             destination == findtext(rt.rt_destination)
             vias == mpls0_nh_loop(rt.nh, EmptyDict)
         IN IF destination = <<>> THEN mpls0_rt_loop(Tail(rts), labels)
            ELSE IF vias = EmptyDict THEN mpls0_rt_loop(Tail(rts), DictDel(labels, destination))
            ELSE mpls0_rt_loop(Tail(rts), DictPut(labels, destination, vias))

parsing_mpls0(xml_content) ==
    IF xml_content.fmt = "none" THEN Returned(EmptyDict)
    ELSE IF xml_content.fmt = "malformed" THEN Raised
    ELSE Returned(mpls0_rt_loop(xml_content.tree, EmptyDict))

----------------------------------------------------------------------------
(* The environment: the inventory source and the devices' replies *)

\* device addresses (primary_ip4 without the mask), in the order the inventory lists them
DevOrder == << <<"1">>, <<"2">> >>
Devices == {DevOrder[i] : i \in 1..Len(DevOrder)}

\* what get_netbox_devices() builds for one address: name, site, regions
DeviceRecord(d) ==
    IF d = <<"1">> THEN [name |-> <<"A">>, site |-> <<"s">>, regions |-> << <<"r">> >>]
    ELSE [name |-> <<"B">>, site |-> <<"t">>, regions |-> <<>>]

\* the device maps get_netbox_devices() may return.  The inventory lists the
\* first device when the process starts (the initial cycle of the main thread);
\* by the time of a scheduled cycle it may list the second one too
DeviceMaps(r) ==
    {[d \in D |-> DeviceRecord(d)] : D \in (IF r = "main" THEN {{DevOrder[1]}} ELSE {{DevOrder[1]}, Devices})}

\* what get_netbox_cables() builds from one cable A:x -- B:y
CableMap ==
    (<<"A">> :> (<<"x">> :> [device |-> <<"B">>, interface |-> <<"y">>])) @@
    (<<"B">> :> (<<"y">> :> [device |-> <<"A">>, interface |-> <<"x">>]))

\* replies of a device to get-interface-information: the first device may
\* also send a physical interface whose <speed/> has no text
InterfaceReplies(d) ==
    { Xml(<< [speed |-> Text(<<"9">>),
              logical |-> << [name |-> Text(<<"x">>), snmp_index |-> Text(<<"5">>), description |-> Absent],
                             [name |-> Text(<<"z", " ">>), snmp_index |-> Text(<<"6">>), description |-> Text(<<"u">>)] >>] >>) }
    \cup (IF d = DevOrder[1] THEN { Xml(<< [speed |-> NoText, logical |-> <<>>] >>) } ELSE {})

\* replies of a device to get-route-information inet.3
Inet3Replies ==
    { Xml(<< [rt_destination |-> Text(<<"2", "/", "3">>),
              nh |-> << [via |-> Text(<<"x">>), mpls_label |-> Text(<<"Push", " ", "7">>)] >>],
             [rt_destination |-> Text(<<"8", "/", "3">>), nh |-> <<>>] >>) }

\* replies of a device to get-route-information mpls.0
Mpls0Replies ==
    { Xml(<< [rt_destination |-> Text(<<"7">>),
              nh |-> << [via |-> Text(<<"x">>), mpls_label |-> Text(<<"Pop">>)] >>] >>) }

\* the parsers' outcomes on every payload a cache entry can hold, tabulated
InterfacePayloads == {None} \cup UNION {InterfaceReplies(d) : d \in Devices}
Inet3Payloads == {None} \cup Inet3Replies
Mpls0Payloads == {None} \cup Mpls0Replies
parsed_interfaces == [b \in InterfacePayloads |-> parsing_interfaces(b)]
parsed_inet3 == [b \in Inet3Payloads |-> parsing_inet3(b)]
parsed_mpls0 == [b \in Mpls0Payloads |-> parsing_mpls0(b)]

\* config.max_workers
max_workers == 1

----------------------------------------------------------------------------
(* State *)

Runners == {"main", "sched"}

VARIABLES
    responces,    \* jun_collect.responces: address -> {"interfaces", "nhs", "mpls_labels"} -> payload
    cpc,          \* per thread: where it is in collect_and_write_data / its caller
    connections,  \* per cycle: the local "connections"
    exporters,    \* per cycle: the local "exporters" (data["exporters"])
    ppc,          \* per cycle and device: where its process_exporter future is
    result,       \* per cycle and device: if_data, nhs, mpls_labels of process_exporter
    session,      \* per cycle and device: outcome of the NETCONF session and its replies
    file,         \* result/tmp.json
    wpos,         \* per thread: chunks its open file object has written
    observed,     \* the last response of the HTTP handler
    pin,          \* a call of a parser on its own: the payload handed to it
    pout          \* a call of a parser on its own: parser name -> outcome

vars == <<responces, cpc, connections, exporters, ppc, result, session,
          file, wpos, observed, pin, pout>>

cycleVars == <<responces, cpc, connections, exporters, ppc, result, session,
               file, wpos, observed>>

NoResult == [if_data |-> EmptyDict, nhs |-> EmptyDict, mpls_labels |-> EmptyDict]
NoSession == [st |-> "none", replies |-> EmptyDict]
NoFile == [exists |-> FALSE, content |-> <<>>]
NoRequest == [status |-> 0, body |-> "none"]

\* the locals of a cycle that has not started
FreshPpc == [d \in Devices |-> "none"]
FreshResult == [d \in Devices |-> NoResult]
FreshSession == [d \in Devices |-> NoSession]

CycleInit ==
    /\ responces = EmptyDict
    /\ cpc = [r \in Runners |-> IF r = "main" THEN "start" ELSE "idle"]
    /\ connections = [r \in Runners |-> EmptyDict]
    /\ exporters = [r \in Runners |-> EmptyDict]
    /\ ppc = [r \in Runners |-> FreshPpc]
    /\ result = [r \in Runners |-> FreshResult]
    /\ session = [r \in Runners |-> FreshSession]
    /\ file \in {NoFile}
    /\ wpos = [r \in Runners |-> 0]
    /\ observed = NoRequest

Init ==
    /\ CycleInit
    /\ pin = [reply |-> "any", xml |-> None]
    /\ pout = EmptyDict

----------------------------------------------------------------------------
(* jun_collect.py: the session and the cache *)

\* responces.get(host, {}).get(key)
CacheGet(host, key) ==
    IF host \in DOMAIN responces /\ key \in DOMAIN responces[host] THEN responces[host][key]
    ELSE None

\* the three replies of one session, under the cache keys they are stored at
SessionReplies(d) ==
    { ("interfaces" :> b1) @@ ("nhs" :> b2) @@ ("mpls_labels" :> b3) :
        b1 \in InterfaceReplies(d), b2 \in Inet3Replies, b3 \in Mpls0Replies }

\* pipelines that hold a worker thread of their executor
Running == {"conn", "parse"}
\* pipelines whose future is finished (returned, raised, or returned and read by the cycle)
Terminal == {"done", "raised", "merged"}

InFlight(r) == {d \in Devices : ppc[r][d] \in Running}

\* position of a device in the order of the inventory, which is the order of submission
RECURSIVE IndexFrom(_, _)
IndexFrom(i, d) == IF DevOrder[i] = d THEN i ELSE IndexFrom(i + 1, d)
Index(d) == IndexFrom(1, d)

\* a worker thread of the cycle's ThreadPoolExecutor takes the oldest queued call
StartPipeline(r, d) ==
    /\ cpc[r] \in {"pool", "unwind"}
    /\ ppc[r][d] = "queued"
    /\ \A e \in Devices : ppc[r][e] = "queued" => Index(d) <= Index(e)
    /\ Cardinality(InFlight(r)) < max_workers
    /\ ppc' = [ppc EXCEPT ![r][d] = "conn"]
    /\ UNCHANGED <<responces, cpc, connections, exporters, result, session,
                   file, wpos, observed, pin, pout>>

\* "if ip_host not in responces: responces[ip_host] = {}" (lines 51-52)
EnsureEntry(cache, d) == IF d \in DOMAIN cache THEN cache ELSE DictPut(cache, d, EmptyDict)

\* the except branch: "if ip_host in responces: responces[ip_host] = {}" (lines 60-61)
ClearEntry(cache, d) == IF d \in DOMAIN cache THEN DictPut(cache, d, EmptyDict) ELSE cache

\* rpc_devices: manager.connect raises (unreachable, refused, timeout after 30 s)
ConnectFail(r, d) ==
    /\ ppc[r][d] = "conn"
    /\ responces' = ClearEntry(responces, d)
    /\ ppc' = [ppc EXCEPT ![r][d] = "parse"]
    /\ session' = [session EXCEPT ![r][d] = [st |-> "failed", replies |-> EmptyDict]]
    /\ UNCHANGED <<cpc, connections, exporters, result, file, wpos, observed, pin, pout>>

\* rpc_devices: the session opens and one of the three conn.rpc(...) raises
\* (RPC error, session lost, timeout); the except branch empties the entry,
\* replies already stored included
RpcFail(r, d) ==
    /\ ppc[r][d] = "conn"
    /\ responces' = ClearEntry(EnsureEntry(responces, d), d)
    /\ ppc' = [ppc EXCEPT ![r][d] = "parse"]
    /\ session' = [session EXCEPT ![r][d] = [st |-> "failed", replies |-> EmptyDict]]
    /\ UNCHANGED <<cpc, connections, exporters, result, file, wpos, observed, pin, pout>>

\* rpc_devices: the session opens, the three conn.rpc(...) return and their
\* replies are stored in the cache entry of the device (lines 54-56)
RpcOk(r, d) ==
    /\ ppc[r][d] = "conn"
    /\ \E replies \in SessionReplies(d) :
         /\ responces' = DictPut(responces, d, replies @@ EnsureEntry(responces, d)[d])
         /\ session' = [session EXCEPT ![r][d] = [st |-> "ok", replies |-> replies]]
    /\ ppc' = [ppc EXCEPT ![r][d] = "parse"]
    /\ UNCHANGED <<cpc, connections, exporters, result, file, wpos, observed, pin, pout>>

----------------------------------------------------------------------------
(* main.py: process_exporter after rpc_devices *)

EmptyConnection == [device |-> <<>>, interface |-> <<>>]

\* a join without the else branch of lines 36-40: no "connection" when no cable is known
EnrichInterfaces_NoDefault(if_data, device_name, conns) ==
    [i \in DOMAIN if_data |->
        IF device_name \in DOMAIN conns /\ if_data[i].name \in DOMAIN conns[device_name]
        THEN [name |-> if_data[i].name, speed |-> if_data[i].speed, description |-> if_data[i].description,
              connection |-> conns[device_name][if_data[i].name]]
        ELSE [name |-> if_data[i].name, speed |-> if_data[i].speed, description |-> if_data[i].description]]

\* lines 31-40: every interface record gets its "connection"
EnrichInterfaces(if_data, device_name, conns) ==
    [i \in DOMAIN if_data |->
        [name |-> if_data[i].name, speed |-> if_data[i].speed, description |-> if_data[i].description,
         connection |-> IF device_name \in DOMAIN conns /\ if_data[i].name \in DOMAIN conns[device_name]
                        THEN conns[device_name][if_data[i].name]
                        ELSE EmptyConnection]]

\* lines 43-50: every next-hop destination is looked up in the device map
EnrichNexthops(if_nhs, exps) ==
    [nh \in DOMAIN if_nhs |->
        [name |-> IF nh \in DOMAIN exps THEN exps[nh].name ELSE <<>>,
         site |-> IF nh \in DOMAIN exps THEN exps[nh].site ELSE <<>>,
         regions |-> IF nh \in DOMAIN exps THEN exps[nh].regions ELSE <<>>,
         labels |-> if_nhs[nh]]]

\* lines 28-62: get_interface_info, get_nexthops and get_mpls_labels read the
\* cache and parse, the two joins are made and the future returns the result;
\* an exception of a parser is re-raised at line 62 and ends the future
ParseAndEnrich(r, d) ==
    /\ ppc[r][d] = "parse"
    /\ LET if_data == parsed_interfaces[CacheGet(d, "interfaces")]
           if_nhs == parsed_inet3[CacheGet(d, "nhs")]
           mpls_labels == parsed_mpls0[CacheGet(d, "mpls_labels")]
       IN IF if_data.ok /\ if_nhs.ok /\ mpls_labels.ok
          THEN /\ result' = [result EXCEPT ![r][d] =
                                [if_data |-> EnrichInterfaces(if_data.val, exporters[r][d].name, connections[r]),
                                 nhs |-> EnrichNexthops(if_nhs.val, exporters[r]),
                                 mpls_labels |-> mpls_labels.val]]
               /\ ppc' = [ppc EXCEPT ![r][d] = "done"]
          ELSE /\ result' = result
               /\ ppc' = [ppc EXCEPT ![r][d] = "raised"]
    /\ UNCHANGED <<responces, cpc, connections, exporters, session,
                   file, wpos, observed, pin, pout>>

----------------------------------------------------------------------------
(* main.py: collect_and_write_data, its two callers and the HTTP handler *)

\* the frame of collect_and_write_data is gone: its locals and its futures
LocalsDie(r) ==
    /\ connections' = [connections EXCEPT ![r] = EmptyDict]
    /\ exporters' = [exporters EXCEPT ![r] = EmptyDict]
    /\ ppc' = [ppc EXCEPT ![r] = FreshPpc]
    /\ result' = [result EXCEPT ![r] = FreshResult]
    /\ session' = [session EXCEPT ![r] = FreshSession]

\* the cycle's exception leaves collect_and_write_data: the main thread catches it
\* (lines 99-102) and goes on to serve; in the scheduler thread it leaves
\* schedule.run_pending() and run_scheduler (lines 90-92): the thread ends
Abort(r) ==
    /\ cpc' = [cpc EXCEPT ![r] = IF r = "main" THEN "serving" ELSE "dead"]
    /\ LocalsDie(r)

\* collect_and_write_data returns: the main thread goes on to serve, the
\* scheduler thread goes back to its loop
Return(r) ==
    /\ cpc' = [cpc EXCEPT ![r] = IF r = "main" THEN "serving" ELSE "idle"]
    /\ LocalsDie(r)

\* the call of collect_and_write_data: line 100 in the main thread, a due job of
\* schedule.run_pending() in the scheduler thread
StartCycle(r) ==
    /\ \/ r = "main" /\ cpc[r] = "start"
       \/ r = "sched" /\ cpc[r] = "idle"
    /\ cpc' = [cpc EXCEPT ![r] = "cables"]
    /\ UNCHANGED <<responces, connections, exporters, ppc, result, session, file, wpos, observed, pin, pout>>

\* line 67: get_netbox_cables() returns
GetCablesOk(r) ==
    /\ cpc[r] = "cables"
    /\ connections' = [connections EXCEPT ![r] = CableMap]
    /\ cpc' = [cpc EXCEPT ![r] = "devices"]
    /\ UNCHANGED <<responces, exporters, ppc, result, session, file, wpos, observed, pin, pout>>

\* line 67: get_netbox_cables() raises
GetCablesFail(r) ==
    /\ cpc[r] = "cables"
    /\ Abort(r)
    /\ UNCHANGED <<responces, file, wpos, observed, pin, pout>>

\* lines 68-75: get_netbox_devices() returns; every device is submitted to the executor
GetDevicesOk(r) ==
    /\ cpc[r] = "devices"
    /\ \E m \in DeviceMaps(r) :
         /\ exporters' = [exporters EXCEPT ![r] = m]
         /\ ppc' = [ppc EXCEPT ![r] = [d \in Devices |-> IF d \in DOMAIN m THEN "queued" ELSE "none"]]
    /\ cpc' = [cpc EXCEPT ![r] = "pool"]
    /\ UNCHANGED <<responces, connections, result, session, file, wpos, observed, pin, pout>>

\* a cycle that opens the snapshot file before it asks the inventory
GetDevicesFail_FileOpenedFirst(r) ==
    /\ cpc[r] = "devices"
    /\ Abort(r)
    /\ file' = [exists |-> TRUE, content |-> <<>>]
    /\ UNCHANGED <<responces, wpos, observed, pin, pout>>

\* line 68: get_netbox_devices() raises
GetDevicesFail(r) ==
    /\ cpc[r] = "devices"
    /\ Abort(r)
    /\ UNCHANGED <<responces, file, wpos, observed, pin, pout>>

\* a loop that leaves a device without results out of the snapshot
Harvest_DropsEmpty(r, d) ==
    /\ cpc[r] = "pool"
    /\ ppc[r][d] = "done"
    /\ exporters' = [exporters EXCEPT ![r] =
                        IF result[r][d] = NoResult THEN DictDel(@, d)
                        ELSE DictPut(@, d, [name |-> @[d].name, site |-> @[d].site, regions |-> @[d].regions,
                                            interfaces |-> result[r][d].if_data,
                                            nexthops |-> result[r][d].nhs,
                                            mpls_labels |-> result[r][d].mpls_labels])]
    /\ ppc' = [ppc EXCEPT ![r][d] = "merged"]
    /\ result' = [result EXCEPT ![r][d] = NoResult]
    /\ UNCHANGED <<responces, cpc, connections, session, file, wpos, observed, pin, pout>>

\* lines 77-81: as_completed yields a future that returned; its result is stored
\* in exporters[exporter_key]
Harvest(r, d) ==
    /\ cpc[r] = "pool"
    /\ ppc[r][d] = "done"
    /\ exporters' = [exporters EXCEPT ![r][d] =
                        [name |-> @.name, site |-> @.site, regions |-> @.regions,
                         interfaces |-> result[r][d].if_data,
                         nexthops |-> result[r][d].nhs,
                         mpls_labels |-> result[r][d].mpls_labels]]
    /\ ppc' = [ppc EXCEPT ![r][d] = "merged"]
    /\ result' = [result EXCEPT ![r][d] = NoResult]
    /\ UNCHANGED <<responces, cpc, connections, session, file, wpos, observed, pin, pout>>

\* line 78: as_completed yields a future that raised; future.result() re-raises
\* and the exception leaves the loop
HarvestRaise(r, d) ==
    /\ cpc[r] = "pool"
    /\ ppc[r][d] = "raised"
    /\ cpc' = [cpc EXCEPT ![r] = "unwind"]
    /\ UNCHANGED <<responces, connections, exporters, ppc, result, session, file, wpos, observed, pin, pout>>

\* a shutdown that waits until every future has returned a result
AllTerminal_AllReturned(r) == \A d \in DOMAIN exporters[r] : ppc[r][d] \in {"done", "merged"}

\* the futures the executor's shutdown(wait=True) waits for: all of the cycle
AllTerminal(r) == \A d \in DOMAIN exporters[r] : ppc[r][d] \in Terminal

\* an executor shut down with wait=False after the first result was read
PoolExit_NoWait(r) ==
    /\ cpc[r] = "pool"
    /\ \E d \in DOMAIN exporters[r] : ppc[r][d] = "merged"
    /\ \A d \in DOMAIN exporters[r] : ppc[r][d] \notin {"done", "raised"}
    /\ cpc' = [cpc EXCEPT ![r] = "open"]
    /\ UNCHANGED <<responces, connections, exporters, ppc, result, session, file, wpos, observed, pin, pout>>

\* the end of the "with ThreadPoolExecutor" block after the loop has read every future
PoolExit(r) ==
    /\ cpc[r] = "pool"
    /\ \A d \in DOMAIN exporters[r] : ppc[r][d] = "merged"
    /\ AllTerminal(r)
    /\ cpc' = [cpc EXCEPT ![r] = "open"]
    /\ UNCHANGED <<responces, connections, exporters, ppc, result, session, file, wpos, observed, pin, pout>>

\* the end of the "with ThreadPoolExecutor" block with the exception pending:
\* shutdown(wait=True) returns when every future is finished, the exception goes on
PoolUnwind(r) ==
    /\ cpc[r] = "unwind"
    /\ AllTerminal(r)
    /\ Abort(r)
    /\ UNCHANGED <<responces, file, wpos, observed, pin, pout>>

\* json.dump(data, file): the chunks the file object writes, one per device
\* entry (its key k) and a closing one; c is the thread whose cycle wrote the
\* chunk; a hole is what a write past the end of a truncated file leaves
EndKey == <<>>
Chunk(c, k) == [c |-> c, k |-> k]
Hole == Chunk("", EndKey)

RECURSIVE SerializeFrom(_, _, _)
SerializeFrom(i, exps, c) ==
    IF i > Len(DevOrder) THEN << Chunk(c, EndKey) >>
    ELSE IF DevOrder[i] \in DOMAIN exps
    THEN << Chunk(c, DevOrder[i]) >> \o SerializeFrom(i + 1, exps, c)
    ELSE SerializeFrom(i + 1, exps, c)

Serialize(exps, c) == SerializeFrom(1, exps, c)

\* write(chunk) at offset pos of a file another writer may have truncated
WriteAt(content, pos, chunk) ==
    IF pos < Len(content) THEN [content EXCEPT ![pos + 1] = chunk]
    ELSE content \o [i \in 1..(pos - Len(content)) |-> Hole] \o << chunk >>

\* line 83: open(EXPORT_FILE, "w") creates or truncates the file
OpenFile(r) ==
    /\ cpc[r] = "open"
    /\ file' = [exists |-> TRUE, content |-> <<>>]
    /\ wpos' = [wpos EXCEPT ![r] = 0]
    /\ cpc' = [cpc EXCEPT ![r] = "dump"]
    /\ UNCHANGED <<responces, connections, exporters, ppc, result, session, observed, pin, pout>>

\* line 84: json.dump writes the next chunk
WriteChunk(r) ==
    /\ cpc[r] = "dump"
    /\ wpos[r] < Len(Serialize(exporters[r], r))
    /\ file' = [file EXCEPT !.content = WriteAt(@, wpos[r], Serialize(exporters[r], r)[wpos[r] + 1])]
    /\ wpos' = [wpos EXCEPT ![r] = @ + 1]
    /\ UNCHANGED <<responces, cpc, connections, exporters, ppc, result, session, observed, pin, pout>>

\* the end of the "with open" block; collect_and_write_data returns
CloseFile(r) ==
    /\ cpc[r] = "dump"
    /\ wpos[r] = Len(Serialize(exporters[r], r))
    /\ Return(r)
    /\ UNCHANGED <<responces, file, wpos, observed, pin, pout>>

\* what a client reading the served body finds: one whole document (every
\* chunk of one dump, closed), or a truncated one (no closing chunk, or a hole),
\* or chunks of two dumps
BodyKind(content) ==
    IF content = <<>> THEN "truncated"
    ELSE IF \E i \in 1..Len(content) : content[i] = Hole THEN "truncated"
    ELSE IF \E i, j \in 1..Len(content) : content[i].c # content[j].c THEN "mixed"
    ELSE IF content[Len(content)].k # EndKey THEN "truncated"
    ELSE IF \E i \in 1..(Len(content) - 1) : content[i].k = EndKey THEN "mixed"
    ELSE "whole"

\* lines 18-20, 105-107: the HTTP server, started after the initial cycle,
\* serves result/tmp.json as it is on disk (404 when it does not exist)
HttpGet ==
    /\ cpc["main"] = "serving"
    /\ observed' = IF file.exists THEN [status |-> 200, body |-> BodyKind(file.content)]
                   ELSE [status |-> 404, body |-> "none"]
    /\ UNCHANGED <<responces, cpc, connections, exporters, ppc, result, session, file, wpos, pin, pout>>

PipelineStep(r, d) ==
    \/ StartPipeline(r, d)
    \/ ConnectFail(r, d)
    \/ RpcOk(r, d)
    \/ RpcFail(r, d)
    \/ ParseAndEnrich(r, d)

CycleStep(r) ==
    \/ GetCablesOk(r)
    \/ GetCablesFail(r)
    \/ GetDevicesOk(r)
    \/ GetDevicesFail(r)
    \/ \E d \in Devices : Harvest(r, d)
    \/ \E d \in Devices : HarvestRaise(r, d)
    \/ PoolExit(r)
    \/ PoolUnwind(r)
    \/ OpenFile(r)
    \/ WriteChunk(r)
    \/ CloseFile(r)

Next ==
    \/ \E r \in Runners : StartCycle(r)
    \/ \E r \in Runners : CycleStep(r)
    \/ \E r \in Runners, d \in Devices : PipelineStep(r, d)
    \/ HttpGet

Spec == Init /\ [][Next]_vars

----------------------------------------------------------------------------
(* The parsers called on their own, on every payload of a bounded shape *)

\* texts of at most MaxTextLen tokens (an element with the empty text has no text)
MaxTextLen == 2
Alphabet == {" ", "/", "Push", "7"}
Texts == UNION {[1..n -> Alphabet] : n \in 1..MaxTextLen}

\* an element as a reply can carry it: absent, without text, with any text
Elems == {Absent, NoText} \cup {Text(t) : t \in Texts}

\* replies to get-interface-information: one physical interface with one logical interface
InterfaceInputs ==
    { Xml(<< [speed |-> speed, logical |-> << [name |-> name, snmp_index |-> snmp_index, description |-> description] >>] >>) :
        speed \in {Absent, NoText, Text(<<"9">>)},
        name \in Elems,
        snmp_index \in {Absent, NoText, Text(<<" ">>), Text(<<"5">>)},
        description \in {Absent, NoText, Text(<<"u">>)} }

\* a first next hop of any shape, and the second next hops that may follow it:
\* one that is kept and one that is filtered out
FirstNhs ==
    { [via |-> via, mpls_label |-> label] :
        via \in {Absent, NoText, Text(<<" ">>), Text(<<"x">>)},
        label \in Elems }
SecondNhs ==
    { [via |-> Text(<<"y">>), mpls_label |-> Text(<<"Pop">>)],
      [via |-> NoText, mpls_label |-> Text(<<"Pop">>)] }

\* replies to get-route-information: one route with no, one or two next hops
RouteInputs ==
    { Xml(<< [rt_destination |-> destination, nh |-> nh] >>) :
        destination \in {Absent, NoText, Text(<<"/">>), Text(<<"2", "/", "3">>)},
        nh \in {<<>>} \cup { <<n>> : n \in FirstNhs }
                      \cup { <<n, m>> : n \in FirstNhs, m \in SecondNhs } }

ParseInputs ==
    {[reply |-> "any", xml |-> x] : x \in {None, Malformed}}
    \cup {[reply |-> "interfaces", xml |-> x] : x \in InterfaceInputs}
    \cup {[reply |-> "routes", xml |-> x] : x \in RouteInputs}

ParseInit ==
    /\ CycleInit
    /\ pin \in ParseInputs
    /\ pout = EmptyDict

CallParsingInterfaces ==
    /\ pin.reply \in {"any", "interfaces"}
    /\ "parsing_interfaces" \notin DOMAIN pout
    /\ pout' = DictPut(pout, "parsing_interfaces", parsing_interfaces(pin.xml))
    /\ UNCHANGED <<cycleVars, pin>>

CallParsingInet3 ==
    /\ pin.reply \in {"any", "routes"}
    /\ "parsing_inet3" \notin DOMAIN pout
    /\ pout' = DictPut(pout, "parsing_inet3", parsing_inet3(pin.xml))
    /\ UNCHANGED <<cycleVars, pin>>

CallParsingMpls0 ==
    /\ pin.reply \in {"any", "routes"}
    /\ "parsing_mpls0" \notin DOMAIN pout
    /\ pout' = DictPut(pout, "parsing_mpls0", parsing_mpls0(pin.xml))
    /\ UNCHANGED <<cycleVars, pin>>

ParseNext ==
    \/ CallParsingInterfaces
    \/ CallParsingInet3
    \/ CallParsingMpls0

ParseSpec == ParseInit /\ [][ParseNext]_vars

----------------------------------------------------------------------------
(* Fair scheduling: a thread that can take a step eventually takes one.     *)
(* manager.connect and conn.rpc return or raise (timeout=30, line 47), so a *)
(* pipeline in a session is a pipeline that can take a step.                *)

Fairness ==
    /\ \A r \in Runners : WF_vars(StartCycle(r) \/ CycleStep(r))
    /\ \A r \in Runners : WF_vars(\E d \in Devices : PipelineStep(r, d))

FairSpec == Spec /\ Fairness

----------------------------------------------------------------------------
(* Properties *)

\* the cycle of thread r is past its pool and writes its snapshot
Publishing(r) == cpc[r] \in {"open", "dump"}

\* the three result fields of a device entry are empty
EmptyFields(entry) ==
    /\ entry.interfaces = EmptyDict
    /\ entry.nexthops = EmptyDict
    /\ entry.mpls_labels = EmptyDict

\* the three result fields of a device entry are what the three replies of
\* the cycle's own session with the device parse to (nothing is asked when a
\* reply of the session does not parse)
OwnResults(r, d) ==
    LET replies == session[r][d].replies
        if_data == parsing_interfaces(replies["interfaces"])
        if_nhs == parsing_inet3(replies["nhs"])
        mpls_labels == parsing_mpls0(replies["mpls_labels"])
    IN (if_data.ok /\ if_nhs.ok /\ mpls_labels.ok) =>
         /\ exporters[r][d].interfaces = EnrichInterfaces(if_data.val, exporters[r][d].name, connections[r])
         /\ exporters[r][d].nexthops = EnrichNexthops(if_nhs.val, [e \in DOMAIN exporters[r] |-> DeviceRecord(e)])
         /\ exporters[r][d].mpls_labels = mpls_labels.val

\* C1: in the snapshot a cycle publishes, every device whose transport failed
\* in the cycle has empty interfaces, nexthops and mpls_labels, and every
\* device whose session succeeded has the results parsed from the three
\* payloads of that session.
C1_TransportFailureIsolated ==
    \A r \in Runners : Publishing(r) =>
        \A d \in DOMAIN exporters[r] :
            /\ session[r][d].st = "failed" => EmptyFields(exporters[r][d])
            /\ session[r][d].st = "ok" => OwnResults(r, d)

\* C2: a failure inside one device's pipeline never aborts the cycle: no
\* cycle that has submitted its pipelines is ever left by an exception
\* instead of going on to publish its snapshot.
C2_FailureNeverAbortsCycle ==
    \A r \in Runners : cpc[r] # "unwind"

\* C3: a reader that is served the snapshot file gets one complete snapshot,
\* never an empty, truncated or mixed one.
C3_AtomicPublish ==
    observed.status = 200 => observed.body = "whole"

\* C4: every non-empty result field of a published snapshot comes from the
\* publishing cycle's own session with the device: a device whose transport
\* failed in the cycle has no data in the snapshot, whatever another cycle
\* has cached for it.
C4_SnapshotFromThisCycleAlone ==
    \A r \in Runners : Publishing(r) =>
        \A d \in DOMAIN exporters[r] :
            ~EmptyFields(exporters[r][d]) => (session[r][d].st = "ok" /\ OwnResults(r, d))

\* C5: a cycle whose inventory request fails is left before any of its
\* pipelines exists, it has contacted no device, and the step that leaves it
\* changes neither the snapshot file nor the payload cache.
C5_InventoryFailureAborts ==
    [][\A r \in Runners : cpc[r] \in {"cables", "devices"} =>
          /\ \A d \in Devices : ppc[r][d] = "none" /\ session[r][d] = NoSession
          /\ cpc'[r] \in {"serving", "dead", "idle"} => (file' = file /\ responces' = responces)]_vars

\* the scheduled cycle was ended by a failure of the inventory (no payload
\* was ever cached, so no parser can have raised) while the snapshot the
\* initial cycle published is in place
C5_Witness ==
    /\ cpc["sched"] = "dead"
    /\ responces = EmptyDict
    /\ file.exists /\ file.content = Serialize([d \in {DevOrder[1]} |-> d], "main")

\* C6: while a cycle opens or writes the snapshot file, every pipeline it
\* submitted has returned or raised: none is queued or running.
C6_WriteAfterAllTerminal ==
    \A r \in Runners : Publishing(r) =>
        \A d \in DOMAIN exporters[r] : ppc[r][d] \notin {"queued", "conn", "parse"}

\* a cycle over two devices is writing its snapshot
C6_Witness ==
    /\ cpc["sched"] = "dump"
    /\ wpos["sched"] = 1
    /\ DOMAIN exporters["sched"] = Devices

\* C7: while a pipeline of a cycle is queued or running, no step changes
\* the cycle's device map or its connection map.
C7_MapsNotMutated ==
    [][\A r \in Runners : (\E d \in Devices : ppc[r][d] \in {"queued", "conn", "parse"}) =>
          (exporters'[r] = exporters[r] /\ connections'[r] = connections[r])]_vars

\* C8: over the whole process, the pipelines that have started and are not
\* terminal are at most config.max_workers.
C8_BoundedInFlight ==
    Cardinality({<<r, d>> \in Runners \X Devices : ppc[r][d] \in Running}) <= max_workers

\* C9: a parser called on any payload returns a record set, the empty one
\* for the absent payload: it never raises.
C9_ParsersTotal ==
    \A parser \in DOMAIN pout :
        /\ pout[parser].ok
        /\ pin.xml = None => pout[parser].val = EmptyDict

\* C10: under fair scheduling every started cycle ends: the thread leaves
\* collect_and_write_data, having published or by an exception.
InCycle == {"cables", "devices", "pool", "unwind", "open", "dump"}
C10_CycleTerminates ==
    \A r \in Runners : (cpc[r] \in InCycle) ~> (cpc[r] \notin InCycle)

\* a scheduled cycle over two devices has ended with its snapshot published,
\* the second device unreachable in it (its cache entry was emptied)
C10_Witness ==
    /\ cpc["sched"] = "idle"
    /\ file.content = Serialize([d \in Devices |-> d], "sched")
    /\ DevOrder[2] \in DOMAIN responces /\ responces[DevOrder[2]] = EmptyDict

\* the device keys of the document json.dump writes for the cycle of thread r
SnapshotKeys(r) ==
    {Serialize(exporters[r], r)[i].k : i \in 1..(Len(Serialize(exporters[r], r)) - 1)}

\* C11: the device keys of the snapshot a cycle writes are exactly the
\* addresses the inventory returned in that cycle, which are the addresses it
\* submitted a pipeline for: none is missing, failed devices included, and
\* none is added.
C11_KeysAreInventory ==
    \A r \in Runners : Publishing(r) =>
        SnapshotKeys(r) = {d \in Devices : ppc[r][d] # "none"}

\* a cycle over two devices has written its whole snapshot, the second
\* device's transport having failed
C11_Witness ==
    /\ cpc["sched"] = "dump"
    /\ wpos["sched"] = Len(Serialize(exporters["sched"], "sched"))
    /\ SnapshotKeys("sched") = Devices
    /\ session["sched"][DevOrder[2]].st = "failed"

\* C12: the map parsing_mpls0 returns has no destination with an empty
\* via-map, and no via-map parsing_inet3 or parsing_mpls0 returns has the
\* empty text as a key.
C12_NoEmptyViaMapNoEmptyVia ==
    /\ "parsing_mpls0" \in DOMAIN pout /\ pout["parsing_mpls0"].ok =>
          \A destination \in DOMAIN pout["parsing_mpls0"].val :
              /\ pout["parsing_mpls0"].val[destination] # EmptyDict
              /\ <<>> \notin DOMAIN pout["parsing_mpls0"].val[destination]
    /\ "parsing_inet3" \in DOMAIN pout /\ pout["parsing_inet3"].ok =>
          \A destination \in DOMAIN pout["parsing_inet3"].val :
              <<>> \notin DOMAIN pout["parsing_inet3"].val[destination]

\* both route parsers were called on a route with a destination whose only
\* next hop is filtered out (its via is blank): parsing_mpls0 returned no
\* destination, parsing_inet3 the destination with no via
C12_Witness ==
    /\ pin.reply = "routes"
    /\ pin.xml.tree[1].rt_destination = Text(<<"2", "/", "3">>)
    /\ pin.xml.tree[1].nh # <<>>
    /\ pin.xml.tree[1].nh[1].via = Text(<<" ">>)
    /\ DOMAIN pout = {"parsing_inet3", "parsing_mpls0"}
    /\ pout["parsing_mpls0"] = Returned(EmptyDict)
    /\ pout["parsing_inet3"] = Returned(<<"2">> :> EmptyDict)

\* C13: every interface record of every device in the snapshot a cycle
\* writes has a connection field: the entry of the cycle's connection map for
\* (device name, interface name) when there is one, otherwise the pair with
\* empty device and empty interface.
C13_ConnectionAlwaysPresent ==
    \A r \in Runners : Publishing(r) =>
        \A d \in DOMAIN exporters[r] :
            \A i \in DOMAIN exporters[r][d].interfaces :
                LET record == exporters[r][d].interfaces[i]
                    device_name == exporters[r][d].name
                IN /\ "connection" \in DOMAIN record
                   /\ record.connection =
                         IF device_name \in DOMAIN connections[r] /\ record.name \in DOMAIN connections[r][device_name]
                         THEN connections[r][device_name][record.name]
                         ELSE [device |-> <<>>, interface |-> <<>>]

\* a cycle writes a snapshot in which a device has an interface with a cable
\* and an interface without one
C13_Witness ==
    \E r \in Runners : Publishing(r) /\
        \E d \in DOMAIN exporters[r] :
            /\ \E i \in DOMAIN exporters[r][d].interfaces :
                  exporters[r][d].interfaces[i].connection = [device |-> <<"B">>, interface |-> <<"y">>]
            /\ \E i \in DOMAIN exporters[r][d].interfaces :
                  exporters[r][d].interfaces[i].connection = [device |-> <<>>, interface |-> <<>>]

\* C14: parsing_interfaces emits an entry for a logical interface exactly
\* when it has both a name and an index, and every entry it emits has a
\* non-empty index key and a non-empty name after trimming.
C14_EntriesHaveNameAndIndex ==
    ("parsing_interfaces" \in DOMAIN pout /\ pin.reply = "interfaces" /\ pout["parsing_interfaces"].ok) =>
        LET logical == pin.xml.tree[1].logical[1]
            entries == pout["parsing_interfaces"].val
        IN /\ (logical.name = Absent \/ logical.snmp_index = Absent) => entries = EmptyDict
           /\ (logical.name # Absent /\ logical.snmp_index # Absent) => Cardinality(DOMAIN entries) = 1
           /\ \A index \in DOMAIN entries : index # <<>> /\ entries[index].name # <<>>

\* the label the next hop of a route is to carry: the text trimmed, without
\* a leading "Push" and the whitespace after it, the rest as it is
LeadingPushStripped(text) ==
    LET label == strip(text)
    IN IF startswith_Push(label) THEN strip(Tail(label)) ELSE label

\* C15: for every next hop that parsing_inet3 keeps, the label is the label
\* text with only a leading "Push" and the surrounding whitespace removed: a
\* later "Push" in the remainder is preserved.
C15_OnlyLeadingPushStripped ==
    ("parsing_inet3" \in DOMAIN pout /\ pin.reply = "routes") =>
        LET rt == pin.xml.tree[1]
            destination == split_slash_0(findtext(rt.rt_destination))
            nexthops == pout["parsing_inet3"].val
        IN destination # <<>> =>
             \A i \in 1..Len(rt.nh) :
                 strip(findtext(rt.nh[i].via)) # <<>> =>
                     nexthops[destination][strip(findtext(rt.nh[i].via))]
                         = LeadingPushStripped(findtext(rt.nh[i].mpls_label))

\* C16: the cycle of the main thread and a cycle of the scheduler thread
\* are never in progress at the same time.
C16_OneCycleAtATime ==
    ~(cpc["main"] \in InCycle /\ cpc["sched"] \in InCycle)

\* C17: what a pipeline returns for a device is parsed from the three
\* replies of the session that pipeline opened: the results of those replies
\* when the session succeeded, nothing when it failed; never from a payload
\* another cycle left in the cache.
C17_ResultsFromOwnSession ==
    \A r \in Runners : \A d \in Devices : ppc[r][d] = "done" =>
        IF session[r][d].st = "ok"
        THEN LET replies == session[r][d].replies
                 if_data == parsing_interfaces(replies["interfaces"])
                 if_nhs == parsing_inet3(replies["nhs"])
                 mpls_labels == parsing_mpls0(replies["mpls_labels"])
             IN /\ if_data.ok /\ if_nhs.ok /\ mpls_labels.ok
                /\ result[r][d].if_data = EnrichInterfaces(if_data.val, exporters[r][d].name, connections[r])
                /\ result[r][d].nhs = EnrichNexthops(if_nhs.val, exporters[r])
                /\ result[r][d].mpls_labels = mpls_labels.val
        ELSE result[r][d] = NoResult

\* C18: the scheduler loop keeps running whatever the end of a scheduled
\* cycle: the scheduler thread is never ended by a cycle's exception.
C18_SchedulerKeepsRunning ==
    cpc["sched"] # "dead"

====
